---- MODULE Spec2Model ----
(***************************************************************************)
(* A model of the Simple Time Tracker Invoice plugin: the date/time        *)
(* normalizer and table extractor of main.ts, the entry tree processor of  *)
(* src/time-tracker-parser.ts, the options dialog of src/invoice-modal.ts  *)
(* and the invoice generator (src/invoice-generator.ts).                   *)
(*                                                                         *)
(* Conventions.  A JavaScript string that holds a timestamp is a tagged    *)
(* record; a JavaScript number is a tagged record too, so that NaN and     *)
(* Infinity are values of the model.  Instants are counted in seconds      *)
(* (getTime() / 1000) and durations in seconds (hours * 3600); money is    *)
(* counted in cents.  Local time is taken without daylight-saving shifts,  *)
(* and binary floating-point rounding error is not modelled.               *)
(***************************************************************************)
EXTENDS Integers, Sequences, FiniteSets, TLC

VARIABLES
    dateEngine,   \* which Date parser the host runs: "strict" or "lenient"
    dateIn,       \* the text last handed to parseTimeTrackerDate
    dateOut,      \* what parseTimeTrackerDate returned for it
    settings,     \* the plugin's InvoiceSettings
    envelope,     \* the entries of the JSON envelope handed to parse()
    flat,         \* what TimeTrackerParser.parse returned
    stage,        \* how far the click handler is: "table", "parsed", "composed"
                  \* ("dom" before the table has been read)
    options,      \* the InvoiceOptions handed to generateInvoice
    doc,          \* what addPDFContent put into the document
    modal,        \* the options dialog: "none", "open" or "closed"
    result,       \* InvoiceOptionsModal.result
    edits,        \* the texts typed into the amount field of this dialog
    exit,         \* how this dialog was left: "none", "cancel" or "confirm"
    calls,        \* the arguments of this dialog's calls of onSubmit
    pc,           \* where generateInvoice and its caller stand
    dirIdx,       \* createDirectoryRecursive: the path component at hand
    folders,      \* the components of the invoice directory that exist
    files,        \* who created the file at the invoice's path, if anyone
    thrown,       \* the errors the vault and the PDF library have thrown
    outcome,      \* generateInvoice's promise: "none", "resolved", "rejected"
    error,        \* the message of the error generateInvoice rejected with
    notices,      \* the notices shown to the user
    nameIn,       \* the company name handed to generateFilePath
    nameOut,      \* the sanitized name and the filename built from it
    tables,       \* per tracker: its table's rows (cells per row), or none
    buttons,      \* per tracker: the invoice buttons in its bottom container
    runs,         \* per tracker: how often the post-processor has met it
    ens,          \* per invocation of ensureDirectoryExists: where it stands
    rowsIn,       \* the rows of the tracker table the button was made from
    today,        \* the local date new Date() answers
    header        \* the 'Invoice #' line of the document's header

dateVars == <<dateIn, dateOut>>
invoiceVars == <<settings, envelope, flat, stage, options, doc>>
modalVars == <<modal, result, edits, exit, calls>>
genVars == <<pc, dirIdx, folders, files, thrown, outcome, error, notices>>
nameVars == <<nameIn, nameOut>>
domVars == <<tables, buttons, runs>>
raceVars == <<ens>>
tableVars == <<rowsIn>>
numberVars == <<today, header>>

vars == <<dateEngine, dateVars, invoiceVars, modalVars, genVars, nameVars,
          domVars, raceVars, tableVars, numberVars>>

\* What the actions of one part leave alone.
laterVars == <<raceVars, tableVars, numberVars>>
notDate ==
    <<dateEngine, invoiceVars, modalVars, genVars, nameVars, domVars,
      laterVars>>
notInvoice ==
    <<dateEngine, dateVars, modalVars, genVars, nameVars, domVars,
      laterVars>>
notModal ==
    <<dateEngine, dateVars, invoiceVars, genVars, nameVars, domVars,
      laterVars>>
notGen ==
    <<dateEngine, dateVars, invoiceVars, modalVars, nameVars, domVars,
      laterVars>>
notName ==
    <<dateEngine, dateVars, invoiceVars, modalVars, genVars, domVars,
      laterVars>>
notDom ==
    <<dateEngine, dateVars, invoiceVars, modalVars, genVars, nameVars,
      laterVars>>

\* ------------------------------------------------------------------------
\* JavaScript values
\* ------------------------------------------------------------------------

Null == [kind |-> "null"]
Undefined == [kind |-> "undefined"]
NaN == [kind |-> "nan"]
Infinity == [kind |-> "inf"]
Num(n) == [kind |-> "num", v |-> n]
IsNum(x) == x.kind = "num"

\* The string `${year}-${MM}-${DD}T${HH}:${MM}:${SS}`, field by field.
Iso(y, mo, d, h, mi, s) ==
    [kind |-> "iso", year |-> y, month |-> mo, day |-> d,
     hh |-> h, mm |-> mi, ss |-> s]

\* A string that is no timestamp at all.
Text(t) == [kind |-> "text", text |-> t]

\* The text "AA-BB-CC HH:MM:SS": six two-digit fields in their written order.
Stamp(a, b, c, h, mi, s) ==
    [kind |-> "stamp", f1 |-> a, f2 |-> b, f3 |-> c,
     hh |-> h, mm |-> mi, ss |-> s]

\* ------------------------------------------------------------------------
\* The host's Date: new Date(string).getTime()
\* ------------------------------------------------------------------------

LeapYear(y) == (y % 4 = 0 /\ y % 100 # 0) \/ y % 400 = 0

DaysInMonth(y, m) ==
    IF m = 2 THEN (IF LeapYear(y) THEN 29 ELSE 28)
    ELSE IF m \in {4, 6, 9, 11} THEN 30 ELSE 31

DaysBeforeMonth(y, m) ==
    <<0, 31, 59, 90, 120, 151, 181, 212, 243, 273, 304, 334>>[m]
    + (IF m > 2 /\ LeapYear(y) THEN 1 ELSE 0)

DaysBeforeYear(y) ==
    365 * (y - 1) + ((y - 1) \div 4) - ((y - 1) \div 100) + ((y - 1) \div 400)

\* Days from 2000-01-01 to the given date.  getTime() counts from 1970; the
\* program only subtracts instants and tests them for NaN, so the epoch
\* cancels, and counting from 2000 keeps the seconds within 32 bits.
DaysSinceEpoch(y, m, d) ==
    DaysBeforeYear(y) + DaysBeforeMonth(y, m) + (d - 1) - DaysBeforeYear(2000)

\* Whether the time fields are ones the ISO format admits (24:00:00 included).
TimeFieldsOk(h, mi, s) ==
    \/ h <= 23 /\ mi <= 59 /\ s <= 59
    \/ h = 24 /\ mi = 0 /\ s = 0

\* Whether the date fields are accepted.  A strict parser rejects a day past
\* the month's end; a lenient one (V8) accepts any day up to 31 and rolls it
\* over into the next month.
DateFieldsOk(engine, y, m, d) ==
    /\ m \in 1..12
    /\ d >= 1
    /\ d <= (IF engine = "strict" THEN DaysInMonth(y, m) ELSE 31)

\* new Date(s).getTime(), in seconds; NaN for an invalid date.
DateGetTime(engine, s) ==
    IF s.kind # "iso" THEN NaN
    ELSE IF ~(DateFieldsOk(engine, s.year, s.month, s.day)
              /\ TimeFieldsOk(s.hh, s.mm, s.ss)) THEN NaN
    ELSE Num(DaysSinceEpoch(s.year, s.month, s.day) * 86400
             + s.hh * 3600 + s.mm * 60 + s.ss)

\* ------------------------------------------------------------------------
\* main.ts: parseTimeTrackerDate
\* ------------------------------------------------------------------------

\* The two-digit year pivot and the accepted range of years.
CenturyPivot == 50
MinYear == 1900
MaxYear == 2100

\* The same function with the fields read day first, as "DD-MM-YY".
parseTimeTrackerDateDayFirst(engine, dateStr) ==
    IF dateStr.kind # "stamp" THEN Null
    ELSE
      LET day == dateStr.f1
          month == dateStr.f2
          yy == dateStr.f3
          year == IF yy < CenturyPivot THEN yy + 2000 ELSE yy + 1900
          isoDate == Iso(year, month, day, dateStr.hh, dateStr.mm, dateStr.ss)
      IN IF month < 1 \/ month > 12 \/ day < 1 \/ day > 31 THEN Null
         ELSE IF DateGetTime(engine, isoDate) = NaN THEN Null
         ELSE isoDate

\* dateStr is undefined, blank, a text that does not split into two tokens
\* ("tokens"), a text whose tokens fail the two patterns ("nomatch"), or a
\* stamp.
parseTimeTrackerDate(engine, dateStr) ==
    IF dateStr.kind \in {"undefined", "blank"} THEN Null
    ELSE IF dateStr.kind = "tokens" THEN Null
    ELSE IF dateStr.kind = "nomatch" THEN Null
    ELSE
      LET yy == dateStr.f1
          month == dateStr.f2
          day == dateStr.f3
          year == IF yy < CenturyPivot THEN yy + 2000 ELSE yy + 1900
          isoDate == Iso(year, month, day, dateStr.hh, dateStr.mm, dateStr.ss)
      IN IF month < 1 \/ month > 12 \/ day < 1 \/ day > 31 THEN Null
         ELSE IF year < MinYear \/ year > MaxYear THEN Null
         ELSE IF DateGetTime(engine, isoDate) = NaN THEN Null
         ELSE isoDate

\* The texts tried: every combination of these field values, and the texts
\* that are no stamp.
DateFieldValues == {0, 2, 6, 13, 15, 23, 24, 29, 31, 49, 50, 99}
TimeValues == {<<9, 30, 0>>, <<10, 0, 0>>, <<23, 59, 59>>, <<24, 0, 0>>,
               <<24, 0, 1>>, <<12, 60, 0>>}

DateInputs ==
    {[kind |-> k] : k \in {"undefined", "blank", "tokens", "nomatch"}}
    \cup {Stamp(a, b, c, t[1], t[2], t[3]) :
            a \in DateFieldValues, b \in DateFieldValues,
            c \in DateFieldValues, t \in TimeValues}

\* The value of a result that has not been computed yet.
Pending == [kind |-> "pending"]

\* The settings main.ts starts from.
DEFAULT_SETTINGS == [companyName |-> <<>>, hourlyRate |-> 100]

\* Each part of the plugin before it has been used.
DateIdle ==
    /\ dateIn = Undefined
    /\ dateOut = Pending

InvoiceIdle ==
    /\ settings = DEFAULT_SETTINGS
    /\ envelope = <<>>
    /\ flat = <<>>
    /\ stage = "table"
    /\ options = Pending
    /\ doc = Pending

ModalIdle ==
    /\ modal = "none"
    /\ result = [flatRateAmount |-> Undefined]
    /\ edits = <<>>
    /\ exit = "none"
    /\ calls = <<>>

GenIdle ==
    /\ pc = "idle"
    /\ dirIdx = 0
    /\ folders = {}
    /\ files = "none"
    /\ thrown = <<>>
    /\ outcome = "none"
    /\ error = <<>>
    /\ notices = <<>>

NameIdle ==
    /\ nameIn = <<>>
    /\ nameOut = Pending

DomIdle ==
    /\ tables = <<>>
    /\ buttons = <<>>
    /\ runs = <<>>

RaceIdle == ens = <<>>

TableIdle == rowsIn = <<>>

NumberIdle ==
    /\ today = Null
    /\ header = Pending

LaterIdle == RaceIdle /\ TableIdle /\ NumberIdle

InitDate ==
    /\ dateEngine \in {"strict", "lenient"}
    /\ dateIn \in DateInputs
    /\ dateOut = Pending
    /\ InvoiceIdle /\ ModalIdle /\ GenIdle /\ NameIdle /\ DomIdle
    /\ LaterIdle

\* The call of parseTimeTrackerDate on a cell's text.
Normalize ==
    /\ dateOut = Pending
    /\ dateOut' = parseTimeTrackerDate(dateEngine, dateIn)
    /\ UNCHANGED <<dateIn, notDate>>

NextDate == Normalize

SpecDate == InitDate /\ [][NextDate]_vars

\* ------------------------------------------------------------------------
\* C1
\* ------------------------------------------------------------------------

\* The input denotes a valid date and time when its fields are read in the
\* order (year, month, day).
ValidYearFirst(s) ==
    /\ s.kind = "stamp"
    /\ s.f2 \in 1..12
    /\ s.f3 >= 1
    /\ s.f3 <= DaysInMonth((IF s.f1 < 50 THEN 2000 ELSE 1900) + s.f1, s.f2)
    /\ s.hh <= 23 /\ s.mm <= 59 /\ s.ss <= 59

\* The input denotes a valid date and time when read as (day, month, year).
ValidDayFirst(s) ==
    /\ s.kind = "stamp"
    /\ s.f2 \in 1..12
    /\ s.f1 >= 1
    /\ s.f1 <= DaysInMonth((IF s.f3 < 50 THEN 2000 ELSE 1900) + s.f3, s.f2)
    /\ s.hh <= 23 /\ s.mm <= 59 /\ s.ss <= 59

RealInstant(s) ==
    /\ s.kind = "iso"
    /\ s.month \in 1..12
    /\ s.day >= 1
    /\ s.day <= DaysInMonth(s.year, s.month)
    /\ s.hh < 24 /\ s.mm < 60 /\ s.ss < 60

\* C5: every non-null string the normalizer returns names a real calendar
\* instant (month 1..12, day within the month's length in that year,
\* hour < 24, minute < 60, second < 60), so that a day that does not exist in
\* its month is answered null.
C5_ReturnsRealInstants ==
    (dateOut # Pending /\ dateOut # Null) => RealInstant(dateOut)

\* ------------------------------------------------------------------------
\* JavaScript numbers.  Hours are counted in hundredths of an hour and money
\* in cents; an hourly rate is a whole number of currency units, so that
\* (hundredths of an hour) * rate is an amount in cents.
\* ------------------------------------------------------------------------

\* Truthiness of a string-or-null value: null, undefined and "" are falsy.
Falsy(x) == x.kind \in {"null", "undefined", "empty"}

\* a - b
NumSub(a, b) ==
    IF a = NaN \/ b = NaN THEN NaN
    ELSE IF a = Infinity THEN (IF b = Infinity THEN NaN ELSE Infinity)
    ELSE IF b = Infinity THEN NaN
    ELSE Num(a.v - b.v)

\* a + b, for a, b that are not negative infinity
NumAdd(a, b) ==
    IF a = NaN \/ b = NaN THEN NaN
    ELSE IF a = Infinity \/ b = Infinity THEN Infinity
    ELSE Num(a.v + b.v)

\* a * k for a finite number k >= 0
NumScale(a, k) ==
    IF a = NaN THEN NaN
    ELSE IF a = Infinity THEN (IF k = 0 THEN NaN ELSE Infinity)
    ELSE Num(a.v * k)

\* Math.min(a, b) and Math.max(a, b) for a finite b
MathMin(a, b) ==
    IF a = NaN THEN NaN
    ELSE IF a = Infinity THEN Num(b)
    ELSE Num(IF a.v < b THEN a.v ELSE b)

MathMax(b, a) ==
    IF a = NaN THEN NaN
    ELSE IF a = Infinity THEN Infinity
    ELSE Num(IF a.v > b THEN a.v ELSE b)

\* x.toFixed(2): the number rounded to hundredths, or the words NaN, Infinity.
ToFixed2(x) ==
    IF x = NaN THEN Text("NaN")
    ELSE IF x = Infinity THEN Text("Infinity")
    ELSE [kind |-> "fixed2", hundredths |-> x.v]

\* diffMs / (1000 * 60 * 60): from seconds to hundredths of an hour.  The
\* entry times of the model are multiples of 36 s, so nothing is cut.
MsToHours(x) == IF IsNum(x) THEN Num(x.v \div 36) ELSE x

\* ------------------------------------------------------------------------
\* src/time-tracker-parser.ts
\* ------------------------------------------------------------------------

calculateDuration(startTime, endTime) ==
    IF Falsy(startTime) \/ Falsy(endTime) THEN Num(0)
    ELSE LET start == DateGetTime(dateEngine, startTime)
             end == DateGetTime(dateEngine, endTime)
             diffMs == NumSub(end, start)
         IN MsToHours(diffMs)

\* processEntries with a sub-entry given its parent's level.
RECURSIVE processEntriesSameLevel(_, _)
processEntriesSameLevel(entries, level) ==
    IF entries = <<>> THEN <<>>
    ELSE LET entry == Head(entries)
             processedEntry ==
                 [name |-> entry.name,
                  startTime |-> entry.startTime,
                  endTime |-> entry.endTime,
                  level |-> level,
                  duration |-> calculateDuration(entry.startTime, entry.endTime)]
         IN <<processedEntry>>
            \o processEntriesSameLevel(entry.subEntries, level)
            \o processEntriesSameLevel(Tail(entries), level)

\* The loop over entries, one turn per entry: the entry itself, then its
\* sub-entries processed at level + 1, then the rest of the list.
RECURSIVE processEntriesLoop(_, _)
processEntriesLoop(entries, level) ==
    IF entries = <<>> THEN <<>>
    ELSE LET entry == Head(entries)
             processedEntry ==
                 [name |-> entry.name,
                  startTime |-> entry.startTime,
                  endTime |-> entry.endTime,
                  level |-> level,
                  duration |-> calculateDuration(entry.startTime, entry.endTime)]
             subs == IF Len(entry.subEntries) > 0
                     THEN processEntriesLoop(entry.subEntries, level + 1)
                     ELSE <<>>
         IN <<processedEntry>> \o subs \o processEntriesLoop(Tail(entries), level)

processEntries(entries, level) == processEntriesLoop(entries, level)

\* parse(jsonData), for a well-formed envelope {entries}.
parse(entries) == processEntries(entries, 0)

\* ------------------------------------------------------------------------
\* src/invoice-generator.ts: durations and the document's content
\* ------------------------------------------------------------------------

\* The cap on one entry's hours, 24 * 365, in hundredths of an hour.
MaxEntryHours == 876000

calculateEntryDuration(entry) ==
    IF Falsy(entry.startTime) \/ Falsy(entry.endTime) THEN Num(0)
    ELSE LET start == DateGetTime(dateEngine, entry.startTime)
             end == DateGetTime(dateEngine, entry.endTime)
         IN IF start = NaN \/ end = NaN THEN Num(0)
            ELSE LET diffMs == NumSub(end, start)
                     diffHours == MsToHours(diffMs)
                 IN MathMax(0, MathMin(diffHours, MaxEntryHours))

\* entries.reduce((total, entry) => total + calculateEntryDuration(entry), 0)
RECURSIVE calculateTotalHours(_)
calculateTotalHours(entries) ==
    IF entries = <<>> THEN Num(0)
    ELSE NumAdd(calculateTotalHours(SubSeq(entries, 1, Len(entries) - 1)),
                calculateEntryDuration(entries[Len(entries)]))

\* formatTime: a dash for a missing or unreadable time, else the instant shown.
formatTime(timeString) ==
    IF Falsy(timeString) THEN Text("-")
    ELSE LET t == DateGetTime(dateEngine, timeString)
         IN IF t = NaN THEN Text("-") ELSE [kind |-> "shown", at |-> t.v]

\* The deepest level that is still indented.
MaxIndentLevel == 10

\* One row of the table; indent is the number of leading spaces of the label.
tableRow(entry, isFlateRate, hourlyRate) ==
    LET duration == calculateEntryDuration(entry)
        indent == 2 * (IF entry.level < MaxIndentLevel THEN entry.level
                       ELSE MaxIndentLevel)
    IN IF isFlateRate
       THEN [indent |-> indent, name |-> entry.name,
             start |-> formatTime(entry.startTime),
             end |-> formatTime(entry.endTime),
             hours |-> ToFixed2(duration),
             rate |-> Text("-"),
             amount |-> Text("-")]
       ELSE LET amount == NumScale(duration, hourlyRate)
            IN [indent |-> indent, name |-> entry.name,
                start |-> formatTime(entry.startTime),
                end |-> formatTime(entry.endTime),
                hours |-> ToFixed2(duration),
                rate |-> ToFixed2(Num(hourlyRate * 100)),
                amount |-> ToFixed2(amount)]

\* options?.flatRateAmount !== undefined
isFlatRate(opts) == opts.flatRateAmount # Undefined

\* What addPDFContent writes: the table body and the summary block.
addPDFContent(entries, opts) ==
    LET totalHours == calculateTotalHours(entries)
        isFlateRate == isFlatRate(opts)
        subtotal == IF isFlateRate THEN opts.flatRateAmount
                    ELSE NumScale(totalHours, settings.hourlyRate)
    IN [tableData |-> [i \in DOMAIN entries |->
                         tableRow(entries[i], isFlateRate, settings.hourlyRate)],
        totalHours |-> ToFixed2(totalHours),
        rateLabel |-> IF isFlateRate THEN "Project Rate:" ELSE "Hourly Rate:",
        rateValue |-> IF isFlateRate THEN ToFixed2(opts.flatRateAmount)
                      ELSE ToFixed2(Num(settings.hourlyRate * 100)),
        totalAmount |-> ToFixed2(subtotal)]

\* ------------------------------------------------------------------------
\* From envelope to document: the click handler of main.ts
\* ------------------------------------------------------------------------

\* The most entries an envelope of the model holds.
MaxNodes == 3

\* Entry times: 09:00, 11:30 the same day, and a day more than a year later.
T0 == Iso(2023, 6, 15, 9, 0, 0)
T1 == Iso(2023, 6, 15, 11, 30, 0)
T2 == Iso(2025, 1, 1, 0, 0, 0)

\* The entries an envelope is built from: 2.5 hours of work, an end before
\* its start, a missing start, an unreadable start, more than a year.
Payloads ==
    {[name |-> "A", startTime |-> T0, endTime |-> T1],
     [name |-> "B", startTime |-> T1, endTime |-> T0],
     [name |-> "C", startTime |-> Null, endTime |-> T1],
     [name |-> "D", startTime |-> Text("garbage"), endTime |-> T1],
     [name |-> "E", startTime |-> T0, endTime |-> T2]}

HourlyRates == {100, 75}

FlatRateAmounts == {Undefined, Num(50000), Num(0), Num(-500), NaN, Infinity}

\* The places of an entry list's nodes: a place is the sequence of indices
\* leading from the top-level list to the node.
RECURSIVE PathsOf(_)
PathsOf(entries) ==
    UNION {{<<i>>} \cup {<<i>> \o q : q \in PathsOf(entries[i].subEntries)} :
             i \in DOMAIN entries}

RECURSIVE NodeAt(_, _)
NodeAt(entries, path) ==
    IF Len(path) = 1 THEN entries[path[1]]
    ELSE NodeAt(entries[path[1]].subEntries, Tail(path))

\* The list with a node added as the last sub-entry of the node at path (as
\* the last top-level entry for the empty path).
RECURSIVE AppendAt(_, _, _)
AppendAt(entries, path, node) ==
    IF path = <<>> THEN Append(entries, node)
    ELSE [entries EXCEPT ![path[1]].subEntries = AppendAt(@, Tail(path), node)]

InitInvoice ==
    /\ dateEngine = "lenient"
    /\ DateIdle /\ ModalIdle /\ GenIdle /\ NameIdle /\ DomIdle
    /\ LaterIdle
    /\ settings \in {[DEFAULT_SETTINGS EXCEPT !.hourlyRate = r] : r \in HourlyRates}
    /\ envelope = <<>>
    /\ flat = <<>>
    /\ stage = "table"
    /\ options = Pending
    /\ doc = Pending

\* The envelope the button was created with gains one entry.
BuildEnvelope ==
    /\ stage = "table"
    /\ Cardinality(PathsOf(envelope)) < MaxNodes
    /\ \E path \in PathsOf(envelope) \cup {<<>>}, p \in Payloads :
          envelope' = AppendAt(envelope, path,
                               [name |-> p.name, startTime |-> p.startTime,
                                endTime |-> p.endTime, subEntries |-> <<>>])
    /\ UNCHANGED <<settings, flat, stage, options, doc, notInvoice>>

\* The click: parser.parse(jsonData).
ClickParse ==
    /\ stage = "table"
    /\ flat' = parse(envelope)
    /\ stage' = "parsed"
    /\ UNCHANGED <<settings, envelope, options, doc, notInvoice>>

\* The dialog's callback: the document's content is composed.  A click that
\* found no entry ends with a notice and composes nothing.
ComposeContent ==
    /\ stage = "parsed"
    /\ Len(flat) > 0
    /\ stage' = "composed"
    /\ \E amount \in FlatRateAmounts :
          /\ options' = [flatRateAmount |-> amount]
          /\ doc' = addPDFContent(flat, options')
    /\ UNCHANGED <<settings, envelope, flat, notInvoice>>

NextInvoice == BuildEnvelope \/ ClickParse \/ ComposeContent

SpecInvoice == InitInvoice /\ [][NextInvoice]_vars

\* ------------------------------------------------------------------------
\* C2
\* ------------------------------------------------------------------------

\* The sum of the durations the rows show, in hundredths of an hour.
RECURSIVE SumOfDurations(_)
SumOfDurations(entries) ==
    IF entries = <<>> THEN 0
    ELSE calculateEntryDuration(Head(entries)).v + SumOfDurations(Tail(entries))

FlatRateValid(opts) ==
    /\ opts.flatRateAmount # Undefined
    /\ IsNum(opts.flatRateAmount)
    /\ opts.flatRateAmount.v > 0

\* C2: the total amount is flatRateAmount, and every row's rate and amount
\* cell is the dash, exactly when flatRateAmount is defined, finite and
\* positive; in every other case each row's amount is its duration times
\* hourlyRate and the total is (sum of the durations) times hourlyRate.
C2_FlatRateOnlyWhenValid ==
    stage = "composed" =>
      IF FlatRateValid(options)
      THEN /\ doc.totalAmount = ToFixed2(options.flatRateAmount)
           /\ \A i \in DOMAIN doc.tableData :
                 /\ doc.tableData[i].rate = Text("-")
                 /\ doc.tableData[i].amount = Text("-")
      ELSE /\ doc.totalAmount
                = ToFixed2(Num(SumOfDurations(flat) * settings.hourlyRate))
           /\ \A i \in DOMAIN doc.tableData :
                 doc.tableData[i].amount
                   = ToFixed2(Num(calculateEntryDuration(flat[i]).v
                                  * settings.hourlyRate))

\* ------------------------------------------------------------------------
\* C3
\* ------------------------------------------------------------------------

\* Place p comes before place q in pre-order: p is a proper prefix of q (an
\* ancestor), or at the first index where they differ p's is the smaller.
PreOrderBefore(p, q) ==
    \E k \in 1..Len(q) :
        /\ \A j \in 1..(k - 1) : j <= Len(p) /\ p[j] = q[j]
        /\ \/ Len(p) = k - 1
           \/ Len(p) >= k /\ p[k] < q[k]

\* The position of the node at place p in the pre-order listing.
PreOrderRank(entries, p) ==
    1 + Cardinality({q \in PathsOf(entries) : PreOrderBefore(q, p)})

\* C3: parse returns the pre-order flattening of the entry tree: one output
\* entry per node, a parent directly before its sub-entries' output, siblings
\* in their input order, and each output entry at the nesting depth of its
\* node (0 at the top, the parent's level + 1 below).
C3_PreOrderFlatten ==
    stage # "table" =>
      /\ Len(flat) = Cardinality(PathsOf(envelope))
      /\ \A p \in PathsOf(envelope) :
            LET out == flat[PreOrderRank(envelope, p)]
                node == NodeAt(envelope, p)
            IN /\ out.name = node.name
               /\ out.startTime = node.startTime
               /\ out.endTime = node.endTime
               /\ out.level = Len(p) - 1

\* A parent with a sub-entry, followed by a second top-level entry.
C3_Witness ==
    /\ stage = "parsed"
    /\ PathsOf(envelope) = {<<1>>, <<1, 1>>, <<2>>}
    /\ [i \in DOMAIN flat |-> flat[i].level] = <<0, 1, 0>>
    /\ flat[2].name = envelope[1].subEntries[1].name
    /\ flat[3].name = envelope[2].name

\* ------------------------------------------------------------------------
\* C4
\* ------------------------------------------------------------------------

\* The duration the data model asks for, in hundredths of an hour: 0 when an
\* endpoint is missing or unreadable, else end - start clamped to [0, 8760 h].
ClampedDuration(entry) ==
    LET start == DateGetTime(dateEngine, entry.startTime)
        end == DateGetTime(dateEngine, entry.endTime)
        raw == (end.v - start.v) \div 36
    IN IF Falsy(entry.startTime) \/ Falsy(entry.endTime) THEN 0
       ELSE IF start = NaN \/ end = NaN THEN 0
       ELSE IF raw < 0 THEN 0
       ELSE IF raw > 876000 THEN 876000
       ELSE raw

\* C4: the duration of every entry, the one the parser annotates and the one
\* the renderer computes, is 0 when an endpoint is null or unreadable and
\* otherwise end - start clamped to [0, 8760] hours; none is negative.
C4_DurationsClamped ==
    stage # "table" =>
      \A i \in DOMAIN flat :
          /\ flat[i].duration = Num(ClampedDuration(flat[i]))
          /\ calculateEntryDuration(flat[i]) = Num(ClampedDuration(flat[i]))

\* ------------------------------------------------------------------------
\* src/invoice-modal.ts: the options dialog
\* ------------------------------------------------------------------------

\* The most edits of the amount field in one dialog.
MaxEdits == 3

\* The texts typed into the amount field.
AmountTexts == {"", "abc", "0", "-5", "500", "2500.00", "Infinity", "12abc"}

\* parseFloat(value), in cents, for the texts above.
parseFloat(value) ==
    CASE value = "" -> NaN
      [] value = "abc" -> NaN
      [] value = "0" -> Num(0)
      [] value = "-5" -> Num(-500)
      [] value = "500" -> Num(50000)
      [] value = "2500.00" -> Num(250000)
      [] value = "Infinity" -> Infinity
      [] value = "12abc" -> Num(1200)

\* amount > 0
GreaterThanZero(amount) ==
    CASE amount = NaN -> FALSE
      [] amount = Infinity -> TRUE
      [] OTHER -> amount.v > 0

\* An onChange that leaves the stored amount alone on an invalid text.
onChangeKeepLast(res, value) ==
    LET amount == parseFloat(value)
    IN IF amount # NaN /\ GreaterThanZero(amount)
       THEN [res EXCEPT !.flatRateAmount = amount]
       ELSE res

\* The text field's onChange handler, on this.result.
onChange(res, value) ==
    LET amount == parseFloat(value)
    IN IF amount # NaN /\ GreaterThanZero(amount)
       THEN [res EXCEPT !.flatRateAmount = amount]
       ELSE [res EXCEPT !.flatRateAmount = Undefined]

InitModal ==
    /\ dateEngine = "lenient"
    /\ DateIdle /\ InvoiceIdle /\ ModalIdle /\ GenIdle /\ NameIdle /\ DomIdle
    /\ LaterIdle

\* new InvoiceOptionsModal(app, onSubmit).open()
OpenModal ==
    /\ modal = "none"
    /\ modal' = "open"
    /\ result' = [flatRateAmount |-> Undefined]
    /\ UNCHANGED <<edits, exit, calls, notModal>>

\* The user changes the amount field.
EditAmount ==
    /\ modal = "open"
    /\ Len(edits) < MaxEdits
    /\ \E value \in AmountTexts :
          /\ result' = onChange(result, value)
          /\ edits' = Append(edits, value)
    /\ UNCHANGED <<modal, exit, calls, notModal>>

\* cancelButton.onclick
Cancel ==
    /\ modal = "open"
    /\ modal' = "closed"
    /\ exit' = "cancel"
    /\ UNCHANGED <<result, edits, calls, notModal>>

\* generateButton.onclick
Confirm ==
    /\ modal = "open"
    /\ calls' = Append(calls, result)
    /\ modal' = "closed"
    /\ exit' = "confirm"
    /\ UNCHANGED <<result, edits, notModal>>

NextModal == OpenModal \/ EditAmount \/ Cancel \/ Confirm

SpecModal == InitModal /\ [][NextModal]_vars

\* ------------------------------------------------------------------------
\* C6
\* ------------------------------------------------------------------------

\* The text is a positive, finite number.
PositiveFinite(value) ==
    IsNum(parseFloat(value)) /\ parseFloat(value).v > 0

\* The most recent positive, finite number among the edits; undefined if none.
RECURSIVE LastValidEntered(_)
LastValidEntered(es) ==
    IF es = <<>> THEN Undefined
    ELSE IF PositiveFinite(es[Len(es)]) THEN parseFloat(es[Len(es)])
    ELSE LastValidEntered(SubSeq(es, 1, Len(es) - 1))

\* C6 as claimed: after Cancel the callback has not been invoked; after
\* Confirm it has been invoked exactly once, with the most recent positive,
\* finite number entered as flatRateAmount, and with no flatRateAmount when
\* no such number was entered.
C6_ConfirmPassesLastValid ==
    /\ exit = "cancel" => calls = <<>>
    /\ exit = "confirm" =>
          calls = <<[flatRateAmount |-> LastValidEntered(edits)]>>

\* C6 as amended: after Cancel the callback has not been invoked; after
\* Confirm it has been invoked exactly once, with the number parsed from the
\* most recent edit as flatRateAmount when that number is greater than 0
\* (Infinity included), and with no flatRateAmount when there was no edit or
\* the most recent edit is no such number, whatever was entered before it.
C6_ConfirmPassesCurrentValue ==
    /\ modal = "closed" => exit \in {"cancel", "confirm"}
    /\ exit = "cancel" => calls = <<>>
    /\ exit = "confirm" =>
          LET last == IF edits = <<>> THEN NaN
                      ELSE parseFloat(edits[Len(edits)])
          IN calls = <<[flatRateAmount |->
                          IF last = Infinity \/ (IsNum(last) /\ last.v > 0)
                          THEN last ELSE Undefined]>>

\* A valid amount followed by an invalid text, then Confirm.
C6_Witness ==
    /\ exit = "confirm"
    /\ edits = <<"500", "abc">>
    /\ calls = <<[flatRateAmount |-> Undefined]>>

\* ------------------------------------------------------------------------
\* src/invoice-generator.ts: generateInvoice and its caller in main.ts
\* ------------------------------------------------------------------------

\* The components of the invoice directory, 'Invoices/YYYY/MM' by default.
DirDepth == 3

\* The messages of the errors the vault throws.
FolderExistsMsg == "Folder already exists."
FileExistsMsg == "File already exists."
IoErrorMsg == "EIO: i/o error"
PdfErrorMsg == "jsPDF: invalid arguments"
OpenErrorMsg == "cannot open file"

\* A handler that takes no error for "already exists".
includesAlreadyExistsNever(message) == FALSE

\* error.message.includes("already exists")
includesAlreadyExists(message) ==
    message \in {FolderExistsMsg, FileExistsMsg}

\* The catch block of generateInvoice: the promise rejects with the wrapped
\* error, and control is back in the caller.
Rejects(at, messages) ==
    /\ thrown' = Append(thrown, [at |-> at, msg |-> messages[Len(messages)]])
    /\ outcome' = "rejected"
    /\ error' = <<"Failed to generate invoice">> \o messages
    /\ pc' = "caller"

\* createDirectoryRecursive: on to the next component, or to the file.
NextComponent ==
    IF dirIdx = DirDepth
    THEN pc' = "file" /\ UNCHANGED dirIdx
    ELSE pc' = "loopCheck" /\ dirIdx' = dirIdx + 1

InitGen ==
    /\ dateEngine = "lenient"
    /\ DateIdle /\ InvoiceIdle /\ ModalIdle /\ NameIdle /\ DomIdle
    /\ LaterIdle
    /\ pc = "idle"
    /\ dirIdx = 0
    /\ \E k \in 0..DirDepth : folders = 1..k
    /\ files \in {"none", "other"}
    /\ thrown = <<>>
    /\ outcome = "none"
    /\ error = <<>>
    /\ notices = <<>>

\* The dialog's callback calls generator.generateInvoice(entries, options).
StartGenerate ==
    /\ pc = "idle"
    /\ pc' = "pdf"
    /\ UNCHANGED <<dirIdx, folders, files, thrown, outcome, error, notices, notGen>>

\* generatePDF: the document is composed, or the PDF library throws and the
\* error is wrapped once by generatePDF and once by generateInvoice.
GeneratePDF ==
    /\ pc = "pdf"
    /\ \/ pc' = "ensure" /\ UNCHANGED <<thrown, outcome, error>>
       \/ Rejects("pdf", <<"PDF generation failed", PdfErrorMsg>>)
    /\ UNCHANGED <<dirIdx, folders, files, notices, notGen>>

\* ensureDirectoryExists up to its call of createDirectoryRecursive.
EnsureDirectoryExists ==
    /\ pc = "ensure"
    /\ IF DirDepth = 0 \/ DirDepth \in folders
       THEN pc' = "file" /\ UNCHANGED dirIdx
       ELSE pc' = "loopCheck" /\ dirIdx' = 1
    /\ UNCHANGED <<folders, files, thrown, outcome, error, notices, notGen>>

\* createDirectoryRecursive: await adapter.exists(normalizedPath).
LoopCheck ==
    /\ pc = "loopCheck"
    /\ IF dirIdx \in folders
       THEN NextComponent
       ELSE pc' = "loopCreate" /\ UNCHANGED dirIdx
    /\ UNCHANGED <<folders, files, thrown, outcome, error, notices, notGen>>

\* createDirectoryRecursive: await vault.createFolder(normalizedPath), with
\* its catch block and the catch block of ensureDirectoryExists.
LoopCreate ==
    /\ pc = "loopCreate"
    /\ \E msg \in {"ok", FolderExistsMsg, IoErrorMsg} :
          /\ (msg = FolderExistsMsg) <=> (dirIdx \in folders)
          /\ IF msg = "ok"
             THEN /\ folders' = folders \cup {dirIdx}
                  /\ NextComponent
                  /\ UNCHANGED <<thrown, outcome, error>>
             ELSE IF includesAlreadyExists(msg)
             THEN /\ thrown' = Append(thrown, [at |-> "folder", msg |-> msg])
                  /\ NextComponent
                  /\ UNCHANGED <<folders, outcome, error>>
             ELSE /\ Rejects("folder", <<msg>>)
                  /\ UNCHANGED <<folders, dirIdx>>
    /\ UNCHANGED <<files, notices, notGen>>

\* await vault.createBinary(filePath, pdfBuffer), then the "saved" notice.
CreateBinary ==
    /\ pc = "file"
    /\ \E msg \in {"ok", FileExistsMsg, IoErrorMsg} :
          /\ (msg = FileExistsMsg) <=> (files # "none")
          /\ IF msg = "ok"
             THEN /\ files' = "self"
                  /\ notices' = Append(notices, <<"Invoice saved to">>)
                  /\ pc' = "open"
                  /\ UNCHANGED <<thrown, outcome, error>>
             ELSE /\ Rejects("file", <<msg>>)
                  /\ UNCHANGED <<files, notices>>
    /\ UNCHANGED <<dirIdx, folders, notGen>>

\* await leaf.openFile(file)
OpenFile ==
    /\ pc = "open"
    /\ \/ /\ outcome' = "resolved"
          /\ pc' = "caller"
          /\ UNCHANGED <<thrown, error>>
       \/ Rejects("open", <<OpenErrorMsg>>)
    /\ UNCHANGED <<dirIdx, folders, files, notices, notGen>>

\* main.ts, after the await: the success notice, or the catch block's notice
\* with the error's message.
CallerContinues ==
    /\ pc = "caller"
    /\ notices' = Append(notices,
                         IF outcome = "resolved"
                         THEN <<"Invoice generated successfully!">>
                         ELSE <<"Error generating invoice">> \o error)
    /\ pc' = "done"
    /\ UNCHANGED <<dirIdx, folders, files, thrown, outcome, error, notGen>>

\* Someone else creates the next missing component of the directory.
ExternalCreateFolder ==
    /\ pc \notin {"idle", "done"}
    /\ \E i \in 1..DirDepth :
          /\ i \notin folders
          /\ i = 1 \/ (i - 1) \in folders
          /\ folders' = folders \cup {i}
    /\ UNCHANGED <<pc, dirIdx, files, thrown, outcome, error, notices, notGen>>

\* Someone else creates a file at the invoice's path.
ExternalCreateFile ==
    /\ pc \notin {"idle", "done"}
    /\ files = "none"
    /\ files' = "other"
    /\ UNCHANGED <<pc, dirIdx, folders, thrown, outcome, error, notices, notGen>>

NextGen ==
    \/ StartGenerate
    \/ GeneratePDF
    \/ EnsureDirectoryExists
    \/ LoopCheck
    \/ LoopCreate
    \/ CreateBinary
    \/ OpenFile
    \/ CallerContinues
    \/ ExternalCreateFolder
    \/ ExternalCreateFile

SpecGen == InitGen /\ [][NextGen]_vars

\* ------------------------------------------------------------------------
\* C7
\* ------------------------------------------------------------------------

\* C7: whenever generateInvoice fails, at whichever step, the user is shown
\* one wrapped error that carries the underlying message, the success notice
\* is not shown, and this invocation has persisted no document file.
C7_FailureLeavesNoFile ==
    (pc = "done" /\ outcome = "rejected") =>
        /\ notices[Len(notices)]
             = <<"Error generating invoice", "Failed to generate invoice">>
               \o SubSeq(error, 2, Len(error))
        /\ error[Len(error)] = thrown[Len(thrown)].msg
        /\ \A i \in DOMAIN notices :
              notices[i] # <<"Invoice generated successfully!">>
        /\ files # "self"

\* ------------------------------------------------------------------------
\* C8
\* ------------------------------------------------------------------------

PersistenceSteps == {"folder", "file"}

\* C8 as claimed: a persistence failure, of directory creation or of the
\* file's creation, that says the target already exists is treated as
\* success and does not fail the invocation; any other persistence failure
\* makes generateInvoice reject.
C8_AlreadyExistsIsSuccess ==
    \A i \in DOMAIN thrown :
        thrown[i].at \in PersistenceSteps =>
            IF thrown[i].msg \in {FolderExistsMsg, FileExistsMsg}
            THEN ~(outcome = "rejected" /\ i = Len(thrown))
            ELSE outcome = "rejected" /\ i = Len(thrown)

\* C8 as amended: a failure of directory creation that says the target
\* already exists is treated as success and does not fail the invocation;
\* every other persistence failure, a failure of the file's creation that
\* says the file already exists included, makes generateInvoice reject.
C8_FolderAlreadyExistsIsSuccess ==
    \A i \in DOMAIN thrown :
        thrown[i].at \in PersistenceSteps =>
            IF thrown[i] = [at |-> "folder", msg |-> FolderExistsMsg]
            THEN ~(outcome = "rejected" /\ i = Len(thrown))
            ELSE outcome = "rejected" /\ i = Len(thrown)

\* A folder turned out to exist already, and the invoice was generated.
C8_Witness ==
    /\ pc = "done"
    /\ outcome = "resolved"
    /\ \E i \in DOMAIN thrown :
          thrown[i] = [at |-> "folder", msg |-> FolderExistsMsg]

\* ------------------------------------------------------------------------
\* src/invoice-generator.ts: generateFilePath and sanitizeFilename
\* A name is a sequence of characters.
\* ------------------------------------------------------------------------

\* substring(0, 50)
NameCap == 50

\* The longest prefix and suffix put around a run of letters.
MaxEdge == 2

\* The characters of the model: a letter, the hyphen, a blank, a slash.
NameChars == {"a", "-", " ", "/"}
UnsafeChars == {"/"}
WhitespaceChars == {" "}

\* The fallback of generateFilePath for an unset company name.
Company == <<"C", "o", "m", "p", "a", "n", "y">>

\* The samples of Math.floor(Math.random() * 10000).
RandomSamples == {0, 4711, 9999}

\* replace(/[<>:"/\\|?*\x00-\x1f]/g, '-')
ReplaceEach(s, class) ==
    [i \in DOMAIN s |-> IF s[i] \in class THEN "-" ELSE s[i]]

\* The sequence without its leading characters of the class.
RECURSIVE DropRun(_, _)
DropRun(s, class) ==
    IF s # <<>> /\ Head(s) \in class THEN DropRun(Tail(s), class) ELSE s

\* replace(/\s+/g, '-') and replace(/-+/g, '-'): each run becomes one hyphen.
RECURSIVE ReplaceRuns(_, _)
ReplaceRuns(s, class) ==
    IF s = <<>> THEN <<>>
    ELSE IF Head(s) \in class
    THEN <<"-">> \o ReplaceRuns(DropRun(s, class), class)
    ELSE <<Head(s)>> \o ReplaceRuns(Tail(s), class)

\* replace(/^-|-$/g, '')
StripHyphens(s) ==
    LET t == IF s # <<>> /\ Head(s) = "-" THEN Tail(s) ELSE s
    IN IF t # <<>> /\ t[Len(t)] = "-" THEN SubSeq(t, 1, Len(t) - 1) ELSE t

Substring(s, n) == SubSeq(s, 1, IF Len(s) < n THEN Len(s) ELSE n)

sanitizeFilename(filename) ==
    Substring(
        StripHyphens(
            ReplaceRuns(
                ReplaceRuns(ReplaceEach(filename, UnsafeChars), WhitespaceChars),
                {"-"})),
        NameCap)

\* The filename part of generateFilePath, piece by piece.
generateFilePath(companySetting, invoiceNumber) ==
    LET companyName == IF companySetting = <<>> THEN Company ELSE companySetting
        safeCompanyName == sanitizeFilename(companyName)
    IN [safe |-> safeCompanyName,
        filename |-> <<safeCompanyName, "-invoice-", invoiceNumber, ".pdf">>]

\* The sequences over the characters of length up to n.
RECURSIVE SeqsUpTo(_)
SeqsUpTo(n) ==
    IF n = 0 THEN {<<>>}
    ELSE LET shorter == SeqsUpTo(n - 1)
         IN shorter \cup {Append(s, c) : s \in shorter, c \in NameChars}

Letters(n) == [i \in 1..n |-> "a"]

\* The company names tried: a run of letters, of a length around the cap,
\* between a short prefix and a short suffix.
CompanyNames ==
    {pre \o Letters(n) \o suf :
        pre \in SeqsUpTo(MaxEdge), suf \in SeqsUpTo(MaxEdge),
        n \in {0, NameCap - 3, NameCap - 2, NameCap - 1, NameCap}}

InitName ==
    /\ dateEngine = "lenient"
    /\ DateIdle /\ InvoiceIdle /\ ModalIdle /\ GenIdle /\ DomIdle
    /\ LaterIdle
    /\ nameIn \in CompanyNames
    /\ nameOut = Pending

\* generateInvoice's call of generateFilePath.
GenerateFilePath ==
    /\ nameOut = Pending
    /\ \E n \in RandomSamples : nameOut' = generateFilePath(nameIn, n)
    /\ UNCHANGED <<nameIn, notName>>

NextName == GenerateFilePath

SpecName == InitName /\ [][NextName]_vars

\* ------------------------------------------------------------------------
\* C9
\* ------------------------------------------------------------------------

\* C9: the sanitized company name has at most 50 characters, no unsafe
\* character, no whitespace and no two hyphens in a row, and neither starts
\* nor ends with a hyphen; the filename is that name, "-invoice-", the
\* invoice number and ".pdf", with "Company" for an unset company name.
C9_SafeCompanyName ==
    nameOut # Pending =>
        LET safe == nameOut.safe
        IN /\ Len(safe) <= 50
           /\ \A i \in DOMAIN safe : safe[i] \notin {"/", " "}
           /\ \A i \in 1..(Len(safe) - 1) : ~(safe[i] = "-" /\ safe[i + 1] = "-")
           /\ safe # <<>> => safe[1] # "-" /\ safe[Len(safe)] # "-"
           /\ \E n \in RandomSamples :
                 nameOut.filename = <<safe, "-invoice-", n, ".pdf">>
           /\ nameIn = <<>> => safe = Company

\* ------------------------------------------------------------------------
\* main.ts: the markdown post-processor and addInvoiceButton
\* A tracker is one rendered time tracker: a container that holds the
\* tracker's table and its bottom container.
\* ------------------------------------------------------------------------

\* The trackers of the rendered note, the most data rows of a table, and
\* the most runs of the post-processor over one tracker.
NumTrackers == 2
MaxRows == 2
MaxRuns == 3

\* Rows from index 1001 on are not read; a row qualifies with 4 cells.
RowScanCap == 1001
MinCells == 4

Trackers == 1..NumTrackers

\* The cell counts of a row.
CellCounts == {3, 4}

\* A table: its rows' cell counts, the header row first; or no table.
NoTable == [present |-> FALSE, rows |-> <<>>]

RECURSIVE RowSeqs(_)
RowSeqs(n) ==
    IF n = 0 THEN {<<>>}
    ELSE LET shorter == RowSeqs(n - 1)
         IN shorter \cup {Append(r, c) : r \in shorter, c \in CellCounts}

TableShapes ==
    {NoTable}
    \cup {[present |-> TRUE, rows |-> <<MinCells>> \o r] : r \in RowSeqs(MaxRows)}

\* extractDataFromTable: one entry per row with at least 4 cells among rows
\* 1 .. min(rows.length, 1001) - 1 (row 0 is the header); null if there is none.
extractDataFromTable(table) ==
    LET last == IF Len(table.rows) < RowScanCap THEN Len(table.rows)
                ELSE RowScanCap
        RECURSIVE Scan(_)
        Scan(i) == IF i > last THEN <<>>
                   ELSE IF table.rows[i] >= MinCells
                   THEN <<[row |-> i - 1]>> \o Scan(i + 1)
                   ELSE Scan(i + 1)
        entries == Scan(2)
    IN IF Len(entries) > 0 THEN [kind |-> "json", entries |-> entries] ELSE Null

\* A check that never finds the button.
hasInvoiceButtonNever(b) == FALSE

\* bottomContainer.querySelector('button[data-invoice-button]')
hasInvoiceButton(b) == Len(buttons[b]) > 0

\* The post-processor's callback for one bottom container: the buttons its
\* bottom container holds afterwards.
processBottomContainer(b) ==
    IF hasInvoiceButton(b) THEN buttons[b]
    ELSE IF ~tables[b].present THEN buttons[b]
    ELSE LET jsonData == extractDataFromTable(tables[b])
         IN IF jsonData # Null
            THEN Append(buttons[b], [dataInvoiceButton |-> TRUE,
                                     jsonData |-> jsonData])
            ELSE buttons[b]

InitDom ==
    /\ dateEngine = "lenient"
    /\ DateIdle /\ InvoiceIdle /\ ModalIdle /\ GenIdle /\ NameIdle
    /\ LaterIdle
    /\ tables \in [Trackers -> TableShapes]
    /\ buttons = [b \in Trackers |-> <<>>]
    /\ runs = [b \in Trackers |-> 0]

\* One run of the post-processor over an element that holds the bottom
\* containers of the trackers in S.
PostProcess ==
    \E S \in SUBSET Trackers :
        /\ S # {}
        /\ \A b \in S : runs[b] < MaxRuns
        /\ buttons' = [b \in Trackers |->
                         IF b \in S THEN processBottomContainer(b) ELSE buttons[b]]
        /\ runs' = [b \in Trackers |-> IF b \in S THEN runs[b] + 1 ELSE runs[b]]
        /\ UNCHANGED <<tables, notDom>>

NextDom == PostProcess

SpecDom == InitDom /\ [][NextDom]_vars

\* ------------------------------------------------------------------------
\* C10
\* ------------------------------------------------------------------------

\* The table has a data row with at least 4 cells.
HasQualifyingRow(table) ==
    table.present /\ \E i \in 2..Len(table.rows) : table.rows[i] >= 4

\* C10: after any number of runs of the post-processor, in any order, every
\* tracker's table has at most one 'Create Invoice' button, and a table
\* without a qualifying row has none; a run that finds a button in place
\* adds none.
C10_AtMostOneButton ==
    /\ [](\A b \in Trackers :
             /\ Len(buttons[b]) <= 1
             /\ ~HasQualifyingRow(tables[b]) => Len(buttons[b]) = 0)
    /\ [][\A b \in Trackers :
             Len(buttons[b]) >= 1 => buttons'[b] = buttons[b]]_vars

\* A tracker the post-processor has met twice holds one button.
C10_Witness ==
    \E b \in Trackers :
        /\ runs[b] >= 2
        /\ Len(buttons[b]) = 1
        /\ HasQualifyingRow(tables[b])

\* ------------------------------------------------------------------------
\* src/invoice-generator.ts: ensureDirectoryExists and
\* createDirectoryRecursive, run by several generations over one vault
\* ------------------------------------------------------------------------

\* The generations that run at the same time.
NumInvocations == 2

Invocations == 1..NumInvocations

\* One invocation before its call: where it stands, the component at hand,
\* its calls of createFolder per component, whether a createFolder of its
\* own found the folder in place, and the error it threw.
EnsIdle ==
    [pc |-> "idle", idx |-> 0, creates |-> [c \in 1..DirDepth |-> 0],
     raced |-> FALSE, err |-> "none"]

\* createDirectoryRecursive after a component: the next one, or the return.
afterComponent(e) ==
    IF e.idx = DirDepth
    THEN [e EXCEPT !.pc = "returned"]
    ELSE [e EXCEPT !.pc = "loopCheck", !.idx = e.idx + 1]

InitRace ==
    /\ dateEngine = "lenient"
    /\ DateIdle /\ InvoiceIdle /\ ModalIdle /\ NameIdle /\ DomIdle
    /\ TableIdle /\ NumberIdle
    /\ pc = "idle"
    /\ dirIdx = 0
    /\ \E k \in 0..DirDepth : folders = 1..k
    /\ files = "none"
    /\ thrown = <<>>
    /\ outcome = "none"
    /\ error = <<>>
    /\ notices = <<>>
    /\ ens = [i \in Invocations |-> EnsIdle]

\* What a step of the race leaves alone.
notRace ==
    <<dateEngine, dateVars, invoiceVars, modalVars, nameVars, domVars,
      tableVars, numberVars, pc, dirIdx, files, thrown, outcome, error,
      notices>>

\* generateInvoice calls ensureDirectoryExists(filePath): the directory part
\* of the path is taken; it is never empty for the directory template.
EnsureStart(i) ==
    /\ ens[i].pc = "idle"
    /\ ens' = [ens EXCEPT ![i].pc = IF DirDepth = 0 THEN "returned" ELSE "exists"]
    /\ UNCHANGED <<folders, notRace>>

\* await adapter.exists(dirPath); if (dirExists) return
EnsureExists(i) ==
    /\ ens[i].pc = "exists"
    /\ ens' = [ens EXCEPT ![i] =
                  IF DirDepth \in folders
                  THEN [@ EXCEPT !.pc = "returned"]
                  ELSE [@ EXCEPT !.pc = "loopCheck", !.idx = 1]]
    /\ UNCHANGED <<folders, notRace>>

\* createDirectoryRecursive: await adapter.exists(normalizedPath)
EnsureLoopCheck(i) ==
    /\ ens[i].pc = "loopCheck"
    /\ ens' = [ens EXCEPT ![i] =
                  IF @.idx \in folders
                  THEN afterComponent(@)
                  ELSE [@ EXCEPT !.pc = "loopCreate"]]
    /\ UNCHANGED <<folders, notRace>>

\* createDirectoryRecursive: await vault.createFolder(normalizedPath) with
\* its catch block; an error it rethrows passes the catch block of
\* ensureDirectoryExists, which rethrows it for the same reason.
EnsureLoopCreate(i) ==
    /\ ens[i].pc = "loopCreate"
    /\ \E msg \in {"ok", FolderExistsMsg, IoErrorMsg} :
          LET e == [ens[i] EXCEPT !.creates[ens[i].idx] = @ + 1]
          IN /\ (msg = FolderExistsMsg) <=> (e.idx \in folders)
             /\ IF msg = "ok"
                THEN /\ folders' = folders \cup {e.idx}
                     /\ ens' = [ens EXCEPT ![i] = afterComponent(e)]
                ELSE IF includesAlreadyExists(msg)
                THEN /\ ens' = [ens EXCEPT ![i] =
                                   afterComponent([e EXCEPT !.raced = TRUE])]
                     /\ UNCHANGED folders
                ELSE /\ ens' = [ens EXCEPT ![i] =
                                   [e EXCEPT !.pc = "threw", !.err = msg]]
                     /\ UNCHANGED folders
    /\ UNCHANGED notRace

\* A creator that is no generation makes the next missing component.
OtherCreator ==
    /\ \E c \in 1..DirDepth :
          /\ c \notin folders
          /\ c = 1 \/ (c - 1) \in folders
          /\ folders' = folders \cup {c}
    /\ UNCHANGED <<ens, notRace>>

NextRace ==
    \/ \E i \in Invocations : EnsureStart(i)
    \/ \E i \in Invocations : EnsureExists(i)
    \/ \E i \in Invocations : EnsureLoopCheck(i)
    \/ \E i \in Invocations : EnsureLoopCreate(i)
    \/ OtherCreator

SpecRace == InitRace /\ [][NextRace]_vars

\* Every await of an invocation is answered in the end.
SpecRaceFair ==
    SpecRace
    /\ \A i \in Invocations :
          WF_vars(EnsureStart(i) \/ EnsureExists(i) \/ EnsureLoopCheck(i)
                  \/ EnsureLoopCreate(i))

\* ------------------------------------------------------------------------
\* C11
\* ------------------------------------------------------------------------

\* C11: however the steps of the generations and of another creator
\* interleave, ensureDirectoryExists never throws because a component
\* exists already; when it returns, every component of the directory
\* exists; and the only error it throws is a create failure that is not
\* "already exists", thrown at the first such failure, the component's one
\* and only createFolder call of this invocation.  Every invocation ends:
\* it returns unless such a failure made it throw.
C11_RaceTolerated ==
    \A i \in Invocations :
        /\ [](/\ ens[i].err # "Folder already exists."
              /\ ens[i].pc = "returned" =>
                    /\ folders = 1..DirDepth
                    /\ ens[i].err = "none"
              /\ ens[i].pc = "threw" =>
                    /\ ens[i].err = IoErrorMsg
                    /\ ens[i].creates[ens[i].idx] = 1
              /\ \A c \in 1..DirDepth : ens[i].creates[c] <= 1)
        /\ <>(ens[i].pc \in {"returned", "threw"})

\* Two generations have returned; one of them found, at its createFolder, a
\* component that was made after its existence check.
C11_Witness ==
    /\ \A i \in Invocations : ens[i].pc = "returned"
    /\ \E i \in Invocations : ens[i].raced
    /\ folders = 1..DirDepth

\* ------------------------------------------------------------------------
\* From the tracker's table to the document: extractDataFromTable of
\* main.ts, then the click handler
\* ------------------------------------------------------------------------

\* style.marginLeft of a row's name span: "<n>em", a text that is no number
\* ("auto"), or nothing (no span, or a span without a margin).
Em(n) == [kind |-> "em", n |-> n]
MarginLefts ==
    {[kind |-> "unset"], [kind |-> "auto"]}
    \cup {Em(n) : n \in {-1, 0, 1, 2, 10, 12}}

\* The level is kept within 0 .. 10.
MinLevel == 0
MaxLevel == 10

\* parseInt(marginLeft.replace('em', '')) || 0, clamped
rowLevel(style) ==
    LET marginLeft == IF style.kind = "unset" THEN Em(0) ELSE style
        parsed == IF marginLeft.kind = "em" THEN Num(marginLeft.n) ELSE NaN
        orZero == IF parsed = NaN \/ parsed = Num(0) THEN 0 ELSE parsed.v
        atLeast == IF orZero > MinLevel THEN orZero ELSE MinLevel
    IN IF atLeast < MaxLevel THEN atLeast ELSE MaxLevel

\* The texts of the time cells of the model's rows.
StartText == Stamp(23, 6, 15, 9, 0, 0)
EndText == Stamp(23, 6, 15, 11, 30, 0)

\* A data row: its number of cells, its name span's text and margin, and
\* the texts of its time cells.
DataRows ==
    {[cells |-> c, name |-> "A", marginLeft |-> m,
      startText |-> StartText, endText |-> EndText] :
        c \in CellCounts, m \in MarginLefts}

RECURSIVE DataRowSeqs(_)
DataRowSeqs(n) ==
    IF n = 0 THEN {<<>>}
    ELSE LET shorter == DataRowSeqs(n - 1)
         IN shorter \cup {Append(r, d) : r \in shorter, d \in DataRows}

\* The loop of extractDataFromTable over data rows (the header row is not
\* among them): one entry per row with at least 4 cells, among the rows the
\* scan reaches.  The entry has no subEntries, which reads as an empty list.
RECURSIVE extractEntries(_, _)
extractEntries(rows, i) ==
    IF i > Len(rows) \/ i >= RowScanCap THEN <<>>
    ELSE IF rows[i].cells >= MinCells
    THEN <<[name |-> IF rows[i].name = "" THEN "Unknown Task" ELSE rows[i].name,
            startTime |-> parseTimeTrackerDate(dateEngine, rows[i].startText),
            endTime |-> parseTimeTrackerDate(dateEngine, rows[i].endText),
            level |-> rowLevel(rows[i].marginLeft),
            subEntries |-> <<>>]>>
         \o extractEntries(rows, i + 1)
    ELSE extractEntries(rows, i + 1)

InitIndent ==
    /\ dateEngine \in {"strict", "lenient"}
    /\ DateIdle /\ ModalIdle /\ GenIdle /\ NameIdle /\ DomIdle
    /\ RaceIdle /\ NumberIdle
    /\ settings = DEFAULT_SETTINGS
    /\ envelope = <<>>
    /\ flat = <<>>
    /\ stage = "dom"
    /\ options = Pending
    /\ doc = Pending
    /\ rowsIn \in DataRowSeqs(MaxRows) \ {<<>>}

\* The post-processor reads the table and makes the button with the
\* envelope, if the table yields an entry.
ExtractTable ==
    /\ stage = "dom"
    /\ LET entries == extractEntries(rowsIn, 1)
       IN /\ Len(entries) > 0
          /\ envelope' = entries
    /\ stage' = "table"
    /\ UNCHANGED <<settings, flat, options, doc, dateEngine, dateVars,
                   modalVars, genVars, nameVars, domVars, raceVars,
                   tableVars, numberVars>>

NextIndent == ExtractTable \/ ClickParse \/ ComposeContent

SpecIndent == InitIndent /\ [][NextIndent]_vars

\* ------------------------------------------------------------------------
\* C12
\* ------------------------------------------------------------------------

\* The rows of the table that yield an entry, in their order.
QualifyingRows == SelectSeq(rowsIn, LAMBDA r : r.cells >= 4)

\* The margin's number within 0 .. 10; 0 for a margin that is no number.
LevelOfMargin(style) ==
    IF style.kind # "em" THEN 0
    ELSE IF style.n < 0 THEN 0
    ELSE IF style.n > 10 THEN 10
    ELSE style.n

\* C12: in the composed document, the row of every entry extracted from the
\* table has two leading spaces for each level read from its table row's
\* margin-left, clamped to 0 .. 10.
C12_MarginLevelIsIndent ==
    stage = "composed" =>
        /\ Len(doc.tableData) = Len(QualifyingRows)
        /\ \A i \in DOMAIN doc.tableData :
              /\ envelope[i].level = LevelOfMargin(QualifyingRows[i].marginLeft)
              /\ doc.tableData[i].indent = 2 * envelope[i].level

\* ------------------------------------------------------------------------
\* src/invoice-generator.ts: generateInvoiceNumber and its two callers
\* within one generateInvoice
\* ------------------------------------------------------------------------

\* The local dates generateInvoice starts on.
Day(y, m, d) == [year |-> y, month |-> m, day |-> d]
StartDays == {Day(2024, 2, 29), Day(2024, 12, 31), Day(2025, 6, 5)}

\* The date after midnight.
NextDay(d) ==
    IF d.day < DaysInMonth(d.year, d.month) THEN Day(d.year, d.month, d.day + 1)
    ELSE IF d.month < 12 THEN Day(d.year, d.month + 1, 1)
    ELSE Day(d.year + 1, 1, 1)

\* n.toString().padStart(2, "0"), digit by digit
PadStart2(n) == IF n < 10 THEN <<0, n>> ELSE <<n \div 10, n % 10>>

\* `${year}-${month}-${day}-${timestamp}`, part by part; random is
\* Math.floor(Math.random() * 10000).
generateInvoiceNumber(now, random) ==
    <<now.year, PadStart2(now.month), PadStart2(now.day), random>>

\* The company names of the settings tried here.
NumberCompanies == {<<>>, <<"a">>, <<"a", " ", "a">>}

InitNumber ==
    /\ dateEngine = "lenient"
    /\ DateIdle /\ InvoiceIdle /\ ModalIdle /\ GenIdle /\ DomIdle
    /\ RaceIdle /\ TableIdle
    /\ nameIn \in NumberCompanies
    /\ nameOut = Pending
    /\ today \in StartDays
    /\ header = Pending

\* What a step of generateInvoice leaves alone here.
notNumber ==
    <<dateEngine, dateVars, invoiceVars, modalVars, genVars, domVars,
      raceVars, tableVars, nameIn>>

\* generatePDF, addPDFContent: the number is generated and written into the
\* header; escapeText leaves its digits and hyphens as they are.
HeaderNumber ==
    /\ header = Pending
    /\ nameOut = Pending
    /\ \E random \in RandomSamples :
          LET invoiceNumber == generateInvoiceNumber(today, random)
          IN header' = [label |-> "Invoice #: ", number |-> invoiceNumber]
    /\ UNCHANGED <<today, nameOut, notNumber>>

\* generateInvoice, after generatePDF: generateFilePath generates a number
\* for the filename.
FilePathNumber ==
    /\ header # Pending
    /\ nameOut = Pending
    /\ \E random \in RandomSamples :
          LET invoiceNumber == generateInvoiceNumber(today, random)
          IN nameOut' = generateFilePath(nameIn, invoiceNumber)
    /\ UNCHANGED <<today, header, notNumber>>

\* Midnight passes while generateInvoice runs.
Midnight ==
    /\ today \in StartDays
    /\ nameOut = Pending
    /\ today' = NextDay(today)
    /\ UNCHANGED <<header, nameOut, notNumber>>

NextNumber == HeaderNumber \/ FilePathNumber \/ Midnight

SpecNumber == InitNumber /\ [][NextNumber]_vars

\* ------------------------------------------------------------------------
\* C13
\* ------------------------------------------------------------------------

\* C13: once generateInvoice has the path of the file, the invoice number in
\* the file's name is the invoice number printed after 'Invoice #' in the
\* document's header.
C13_SameInvoiceNumber ==
    nameOut # Pending =>
        /\ header.label = "Invoice #: "
        /\ nameOut.filename[2] = "-invoice-"
        /\ nameOut.filename[3] = header.number

====
